---- MODULE Spec2Model ----
(***************************************************************************)
(* Model of diffhole.py: the numerical kernel pindr (the diffraction mask  *)
(* of nholes pinholes, its shift phase, 2D FFT, fftshift and magnitude)    *)
(* and the Qt widget Example that calls it from its slider handlers.       *)
(*                                                                         *)
(* Numbers.  Grid coordinates are Python 2 integers.  Pinhole positions    *)
(* R*cos(t), R*sin(t) are kept exactly, doubled, in Z[sqrt 3] (pairs       *)
(* <<a, b>> standing for a + b*sqrt(3)), which holds every cosine of a     *)
(* multiple of 2*pi/12.  Complex samples are kept symbolically: a sample   *)
(* of the mask is the bag of squared radial distances whose wavelets it    *)
(* sums, a transform bin is the bag of the samples it sums with their      *)
(* twiddle exponents.  Floating-point special values (NaN) are tracked.    *)
(***************************************************************************)
EXTENDS Integers, Sequences, FiniteSets, TLC

\* ---------------------------------------------------------------- bounds
MaxNpx == 3
MaxHoles == 4
MaxK == 1
MaxShift == 1
MaxR == 2
MaxD == 1
MaxTick == 1

\* ------------------------------------------------------- exact arithmetic
\* a + b*sqrt(3) as <<a, b>>
Z3(a) == <<a, 0>>
Z3Add(p, q) == <<p[1] + q[1], p[2] + q[2]>>
Z3Mul(p, q) == <<p[1] * q[1] + 3 * p[2] * q[2], p[1] * q[2] + p[2] * q[1]>>
Z3Scale(c, p) == <<c * p[1], c * p[2]>>
Z3Sq(p) == Z3Mul(p, p)

\* `/` on two ints, lines 54-55: n / 2.  The script is a Python 2 program
\* (PyQt4, the print statements commented out in plotIt), where int / int
\* is floor division.
PyDivCeil(a, b) == -((-a) \div b)
PyDiv(a, b) == a \div b

\* np.arange(a, b): the integers a .. b-1, empty when b <= a.
np_arange_inclusive(a, b) == [j \in 1..(IF b >= a THEN b - a + 1 ELSE 0) |-> a + j - 1]
np_arange(a, b) == [j \in 1..(IF b > a THEN b - a ELSE 0) |-> a + j - 1]

\* range(n) of the loop at line 63: 0 .. n-1, empty when n <= 0.
PyRangeShort(n) == 0..(n - 2)
PyRange(n) == 0..(n - 1)

\* 2*cos and 2*sin of j*(2*pi/12), exactly.
Cos2Table == <<  <<2, 0>>, <<0, 1>>, <<1, 0>>, <<0, 0>>, <<-1, 0>>, <<0, -1>>,
                 <<-2, 0>>, <<0, -1>>, <<-1, 0>>, <<0, 0>>, <<1, 0>>, <<0, 1>> >>
Cos2(j) == Cos2Table[(j % 12) + 1]
Sin2(j) == Cos2(j - 3)

\* t = i*2.0*np.pi/nholes in twelfths of a turn (nholes divides 12).
HoleAngle(i, nholes) == (i * 12) \div nholes

\* 2*xi and 2*yi of lines 65-66.
HoleX2(i, nholes, R) == Z3Scale(R, Cos2(HoleAngle(i, nholes)))
HoleY2(i, nholes, R) == Z3Scale(R, Sin2(HoleAngle(i, nholes)))

\* ----------------------------------------------------------------- arrays
\* A 2D array is its shape and its elements, indexed from 1:
\* [shape |-> <<rows, cols>>, at |-> [Cells(shape) -> elements]].
Cells(shape) == (1..shape[1]) \X (1..shape[2])

\* x[:, np.newaxis] and y[np.newaxis, :] (lines 57-58).
ColumnVectorAsRow(s) == [shape |-> <<1, Len(s)>>, at |-> [p \in Cells(<<1, Len(s)>>) |-> s[p[2]]]]
ColumnVector(s) == [shape |-> <<Len(s), 1>>, at |-> [p \in Cells(<<Len(s), 1>>) |-> s[p[1]]]]
RowVector(s) == [shape |-> <<1, Len(s)>>, at |-> [p \in Cells(<<1, Len(s)>>) |-> s[p[2]]]]

\* numpy broadcasting of two 2D shapes; Pick is the element of A that lands
\* on cell p of the broadcast result.
DimOK(a, b) == a = b \/ a = 1 \/ b = 1
BroadcastOK(s, t) == DimOK(s[1], t[1]) /\ DimOK(s[2], t[2])
BDim(a, b) == IF a = 1 THEN b ELSE a
BShape(s, t) == <<BDim(s[1], t[1]), BDim(s[2], t[2])>>
Pick(A, p) == A.at[<<IF A.shape[1] = 1 THEN 1 ELSE p[1], IF A.shape[2] = 1 THEN 1 ELSE p[2]>>]

\* np.zeros((rows, cols)): the empty sum of wavelets.
EmptyBag == [v \in {} |-> 0]
np_zeros(rows, cols) ==
    [shape |-> <<rows, cols>>,
     at |-> [p \in Cells(<<rows, cols>>) |-> [nan |-> FALSE, terms |-> EmptyBag]]]

BagAdd(B, v) ==
    [w \in DOMAIN B \cup {v} |-> (IF w \in DOMAIN B THEN B[w] ELSE 0) + (IF w = v THEN 1 ELSE 0)]

\* ------------------------------------------------------------------ pindr
\* 4*ri^2 of line 67 for grid point (X, Y) and pinhole i, exactly.
DistSq4(X, Y, i, nholes, R, d) ==
    Z3Add(Z3Add(Z3Sq(Z3Add(Z3(2 * X), Z3Scale(-1, HoleX2(i, nholes, R)))),
                Z3Sq(Z3Add(Z3(2 * Y), Z3Scale(-1, HoleY2(i, nholes, R))))),
          Z3(4 * d * d))

\* Whether the float ri is exactly 0.0.  cos(0.0) = 1.0 and sin(0.0) = 0.0 are
\* exact, and R = 0 makes every xi, yi exactly 0; for i > 0 and R > 0 the
\* float sine or cosine that is 0 in exact arithmetic is about 1e-16, so the
\* pinhole never sits exactly on an integer grid point.
ZeroDist(X, Y, i, nholes, R, d) ==
    /\ i = 0 \/ R = 0
    /\ DistSq4(X, Y, i, nholes, R, d) = <<0, 0>>

\* ri of line 67: X is (npx, 1), Y is (1, npx), the scalars broadcast.
RadialDistance(X, Y, i, nholes, R, d) ==
    [shape |-> BShape(X.shape, Y.shape),
     at |-> [p \in Cells(BShape(X.shape, Y.shape)) |->
                [r2 |-> DistSq4(Pick(X, p), Pick(Y, p), i, nholes, R, d),
                 zero |-> ZeroDist(Pick(X, p), Pick(Y, p), i, nholes, R, d)]]]

\* M + (-1j/lam*np.exp(1j*k*ri)/ri) of line 68: one more wavelet in every
\* sample; numpy's division by ri = 0.0 gives a non-finite sample, no error.
AddWavelet(M, ri) ==
    [shape |-> BShape(M.shape, ri.shape),
     at |-> [p \in Cells(BShape(M.shape, ri.shape)) |->
                [nan |-> Pick(M, p).nan \/ Pick(ri, p).zero,
                 terms |-> BagAdd(Pick(M, p).terms, Pick(ri, p).r2)]]]

\* The loop of lines 63-68 from iteration i on.
RECURSIVE MaskLoop(_, _, _, _, _, _, _)
MaskLoop(M, i, nholes, X, Y, R, d) ==
    IF i \notin PyRange(nholes) THEN M
    ELSE MaskLoop(AddWavelet(M, RadialDistance(X, Y, i, nholes, R, d)),
                  i + 1, nholes, X, Y, R, d)

\* np.exp(1j*(u*X+v*Y)) of line 71, kept as its phase u*X + v*Y.
ShiftPhase(X, Y, u, v) ==
    [shape |-> BShape(X.shape, Y.shape),
     at |-> [p \in Cells(BShape(X.shape, Y.shape)) |-> u * Pick(X, p) + v * Pick(Y, p)]]

\* xy*M of line 73.
Product(xy, M) ==
    [shape |-> BShape(xy.shape, M.shape),
     at |-> [p \in Cells(BShape(xy.shape, M.shape)) |->
                [nan |-> Pick(M, p).nan, phase |-> Pick(xy, p), terms |-> Pick(M, p).terms]]]

HasNaN(A) == \E p \in DOMAIN A.at : A.at[p].nan

\* fftpack.fft2: bin (k1, k2) sums sample (j1, j2) times
\* w1^(j1*k1) * w2^(j2*k2); one non-finite sample makes every bin NaN.
Twiddle(A, j, k) ==
    <<((j[1] - 1) * (k[1] - 1)) % A.shape[1], ((j[2] - 1) * (k[2] - 1)) % A.shape[2]>>
BinTerm(A, j, k) ==
    <<[phase |-> A.at[j].phase, terms |-> A.at[j].terms], Twiddle(A, j, k)>>
BinSum(A, k) ==
    [t \in {BinTerm(A, j, k) : j \in DOMAIN A.at} |->
        Cardinality({j \in DOMAIN A.at : BinTerm(A, j, k) = t})]
fft2(A) ==
    [shape |-> A.shape,
     at |-> [k \in Cells(A.shape) |->
                IF HasNaN(A) THEN [nan |-> TRUE, sum |-> EmptyBag]
                ELSE [nan |-> FALSE, sum |-> BinSum(A, k)]]]

\* fftshift along one axis of length n: take(y, mylist) with
\* p2 = (n+1)//2 and mylist = concatenate((arange(p2, n), arange(p2))).
ShiftListFloor(n) == np_arange(n \div 2, n) \o np_arange(0, n \div 2)
ShiftList(n) == np_arange((n + 1) \div 2, n) \o np_arange(0, (n + 1) \div 2)
fftshift(A) ==
    [shape |-> A.shape,
     at |-> [p \in Cells(A.shape) |->
                A.at[<<ShiftList(A.shape[1])[p[1]] + 1, ShiftList(A.shape[2])[p[2]] + 1>>]]]

\* np.abs of one complex sample: the magnitude, NaN for a NaN.
RealPart(e) == [nan |-> e.nan, kind |-> "real", of |-> e.sum]
Magnitude(e) == [nan |-> e.nan, kind |-> "abs", of |-> e.sum]
np_abs(A) == [shape |-> A.shape, at |-> [p \in Cells(A.shape) |-> Magnitude(A.at[p])]]

\* lam = 2.0*np.pi/k of line 56: Python float division, which raises on k = 0.
WavelengthNoRaise(k) == "ok"
Wavelength(k) == IF k = 0 THEN "ZeroDivisionError" ELSE "ok"

Raised(exc) == [status |-> "raised", exc |-> exc]

\* pindr (lines 41-78) on the argument record a.  emptyFftRaises: whether the
\* installed fftpack rejects a transform of zero points (it depends on the
\* library version).
pindr(a, emptyFftRaises) ==
    LET n == a.npx + 1
        I == np_arange(1, n)
        x == [j \in DOMAIN I |-> I[j] - PyDiv(n, 2)]
        y == [j \in DOMAIN I |-> PyDiv(n, 2) - I[j]]
        X == ColumnVector(x)
        Y == RowVector(y)
        grid == BShape(X.shape, Y.shape)
        M == MaskLoop(np_zeros(n - 1, n - 1), 0, a.nholes, X, Y, a.R, a.d)
        xy == ShiftPhase(X, Y, a.u, a.v)
        D1 == fft2(Product(xy, M))
        D2 == fftshift(D1)
        abs_image == np_abs(D2)
    IN  IF Wavelength(a.k) # "ok" THEN Raised(Wavelength(a.k))
        ELSE IF n - 1 < 0 THEN Raised("ValueError")
        ELSE IF a.nholes >= 1 /\ ~BroadcastOK(<<n - 1, n - 1>>, grid) THEN Raised("ValueError")
        ELSE IF ~BroadcastOK(grid, M.shape) THEN Raised("ValueError")
        ELSE IF (D1.shape[1] = 0 \/ D1.shape[2] = 0) /\ emptyFftRaises THEN Raised("ValueError")
        ELSE [status |-> "returned", I |-> I, x |-> x, y |-> y, X |-> X, Y |-> Y,
              M |-> M, xy |-> xy, D1 |-> D1, D2 |-> D2, abs_image |-> abs_image]

\* ------------------------------------------------------- the kernel alone
VARIABLES args, ret, pc

\* The pinhole counts whose angles the cosine table holds.
HoleCounts == {h \in (-1)..MaxHoles : h <= 0 \/ 12 % h = 0}

ArgSpace ==
    [k : 0..MaxK, u : 0..MaxShift, v : 0..MaxShift, npx : (-1)..MaxNpx,
     nholes : HoleCounts, R : 0..MaxR, d : 0..MaxD]

NoCall == [status |-> "none"]

\* ------------------------------------------------------------ the widget
VARIABLES ui, sk, su, sv, sd, sr, hc, lut, p100, p600, img100, img600, saved

vars == <<args, ret, pc, ui, sk, su, sv, sd, sr, hc, lut, p100, p600, img100, img600, saved>>
kernelVars == <<args, ret, pc>>
widgetVars == <<ui, sk, su, sv, sd, sr, hc, lut, p100, p600, img100, img600, saved>>
controls == <<sk, su, sv, sd, sr, hc>>

RECURSIVE GCD(_, _)
GCD(a, b) == IF b = 0 THEN a ELSE GCD(b, a % b)

\* A float that is a ratio of two integers, in lowest terms.
Rat(a, b) == <<a \div GCD(a, b), b \div GCD(a, b)>>

\* A shift in radians: lit + pi50 * (pi/50).  pi is irrational, so two such
\* values are equal only when both parts are.
Lit(a) == [lit |-> a, pi50 |-> 0]
PiOver50(value) == [lit |-> 0, pi50 |-> value]

\* The signature of line 41.
PindrDefaultsZeroShift ==
    [k |-> 350, u |-> Lit(0), v |-> Lit(0), npx |-> 600, nholes |-> 8,
     R |-> Rat(2, 1), d |-> Rat(1, 10)]
PindrDefaults ==
    [k |-> 350, u |-> Lit(1), v |-> Lit(1), npx |-> 600, nholes |-> 8,
     R |-> Rat(2, 1), d |-> Rat(1, 10)]

\* The widget keeps an image as the call that computed it: pindr is a pure
\* function, and every call the widget makes (k >= 1, npx 100 or 600,
\* nholes >= 1, d > 0) returns.
Image(a) == [of |-> a, shape |-> <<a.npx, a.npx>>]
NoImage == [of |-> "none", shape |-> <<0, 0>>]

PreviewSize == 100
FullSize == 600

\* setRange / setValue of lines 99-134.
KMin == 1
KMax == 1000
KInit == 350
ShiftMin == 0
ShiftMax == 100
ShiftInit == 16
DMin == 1
DMax == 1000
DInit == 10
RMin == 1
RMax == 100
RInit == 20
HolesMin == 1
HolesMax == 25
HolesInit == 8

\* The positions a control is moved to: its initial one and the lowest `ticks`
\* of its range.
Positions(lo, hi, init, ticks) == {p \in {init} \cup (lo..(lo + ticks - 1)) : lo <= p /\ p <= hi}
Palettes == {"thermal", "grey"}

KernelIdle == args = [k |-> 0] /\ ret = NoCall /\ pc = "idle"

\* Example.__init__ before it calls initUI: the widget holds no control and no
\* image yet.
Init ==
    /\ KernelIdle
    /\ ui = "constructing"
    /\ sk = 0 /\ su = 0 /\ sv = 0 /\ sd = 0 /\ sr = 0 /\ hc = 0
    /\ lut = "none" /\ p100 = NoImage /\ p600 = NoImage
    /\ img100 = [image |-> NoImage, lut |-> "none"]
    /\ img600 = [image |-> NoImage, lut |-> "none"]
    /\ saved = "none"

\* Example.initUI (lines 87-218).
initUI ==
    /\ ui = "constructing"
    /\ ui' = "shown"
    /\ sk' = KInit /\ su' = ShiftInit /\ sv' = ShiftInit
    /\ sd' = DInit /\ sr' = RInit /\ hc' = HolesInit
    /\ lut' = "thermal"
    /\ p100' = Image([PindrDefaults EXCEPT !.npx = PreviewSize])
    /\ img100' = [image |-> p100', lut |-> lut']
    /\ p600' = Image(PindrDefaults)
    /\ img600' = [image |-> p600', lut |-> lut']
    /\ UNCHANGED <<saved, kernelVars>>

\* removeItem / setImage(self.p100, lut=self.lut) / addItem of every handler.
ShowPreview == img100' = [image |-> p100', lut |-> lut]

changeValue_k_full(value) ==
    /\ ui = "shown" /\ value # sk
    /\ sk' = value
    /\ p100' = Image([k |-> value, u |-> PiOver50(su), v |-> PiOver50(sv), npx |-> PreviewSize,
                      nholes |-> hc, d |-> Rat(sd, 100), R |-> Rat(sr, 10)])
    /\ ShowPreview
    /\ p600' = Image([p100'.of EXCEPT !.npx = FullSize])
    /\ UNCHANGED <<su, sv, sd, sr, hc, lut, img600, saved, ui, kernelVars>>

\* lines 220-226; Qt emits valueChanged only when the value changes.
changeValue_k(value) ==
    /\ ui = "shown" /\ value # sk
    /\ sk' = value
    /\ p100' = Image([k |-> value, u |-> PiOver50(su), v |-> PiOver50(sv), npx |-> PreviewSize,
                      nholes |-> hc, d |-> Rat(sd, 100), R |-> Rat(sr, 10)])
    /\ ShowPreview
    /\ UNCHANGED <<su, sv, sd, sr, hc, lut, p600, img600, saved, ui, kernelVars>>

\* lines 228-234
changeValue_u(value) ==
    /\ ui = "shown" /\ value # su
    /\ su' = value
    /\ p100' = Image([k |-> sk, u |-> PiOver50(value), v |-> PiOver50(sv), npx |-> PreviewSize,
                      nholes |-> hc, d |-> Rat(sd, 100), R |-> Rat(sr, 10)])
    /\ ShowPreview
    /\ UNCHANGED <<sk, sv, sd, sr, hc, lut, p600, img600, saved, ui, kernelVars>>

\* lines 236-242
changeValue_v(value) ==
    /\ ui = "shown" /\ value # sv
    /\ sv' = value
    /\ p100' = Image([k |-> sk, u |-> PiOver50(su), v |-> PiOver50(value), npx |-> PreviewSize,
                      nholes |-> hc, d |-> Rat(sd, 100), R |-> Rat(sr, 10)])
    /\ ShowPreview
    /\ UNCHANGED <<sk, su, sd, sr, hc, lut, p600, img600, saved, ui, kernelVars>>

\* lines 244-250: v is read from self.su.
changeValue_d(value) ==
    /\ ui = "shown" /\ value # sd
    /\ sd' = value
    /\ p100' = Image([k |-> sk, u |-> PiOver50(su), v |-> PiOver50(su), npx |-> PreviewSize,
                      nholes |-> hc, d |-> Rat(value, 100), R |-> Rat(sr, 10)])
    /\ ShowPreview
    /\ UNCHANGED <<sk, su, sv, sr, hc, lut, p600, img600, saved, ui, kernelVars>>

\* lines 252-258: v is read from self.su, and d is value/100.0.
changeValue_r(value) ==
    /\ ui = "shown" /\ value # sr
    /\ sr' = value
    /\ p100' = Image([k |-> sk, u |-> PiOver50(su), v |-> PiOver50(su), npx |-> PreviewSize,
                      nholes |-> hc, d |-> Rat(value, 100), R |-> Rat(value, 10)])
    /\ ShowPreview
    /\ UNCHANGED <<sk, su, sv, sd, hc, lut, p600, img600, saved, ui, kernelVars>>

\* lines 260-265
changeValue_holes(value) ==
    /\ ui = "shown" /\ value # hc
    /\ hc' = value
    /\ p100' = Image([k |-> sk, u |-> PiOver50(su), v |-> PiOver50(sv), npx |-> PreviewSize,
                      nholes |-> value, d |-> Rat(sd, 100), R |-> Rat(sr, 10)])
    /\ ShowPreview
    /\ UNCHANGED <<sk, su, sv, sd, sr, lut, p600, img600, saved, ui, kernelVars>>

\* lines 267-283
plotIt ==
    /\ ui = "shown"
    /\ p600' = Image([k |-> sk, u |-> PiOver50(su), v |-> PiOver50(sv), npx |-> FullSize,
                      nholes |-> hc, d |-> Rat(sd, 100), R |-> Rat(sr, 10)])
    /\ img600' = [image |-> p600', lut |-> lut]
    /\ UNCHANGED <<controls, lut, p100, img100, saved, ui, kernelVars>>

\* lines 285-290, on sigGradientChanged
changePalette(palette) ==
    /\ ui = "shown" /\ palette # lut
    /\ lut' = palette
    /\ img100' = [image |-> p100, lut |-> lut']
    /\ UNCHANGED <<controls, p100, p600, img600, saved, ui, kernelVars>>

\* lines 292-294: img600 is written to the chosen file; of the file, the model
\* keeps only that it was written.
showDialog ==
    /\ ui = "shown"
    /\ saved' = "written"
    /\ UNCHANGED <<controls, lut, p100, p600, img100, img600, ui, kernelVars>>

Next ==
    \/ initUI
    \/ \E value \in Positions(KMin, KMax, KInit, MaxTick) : changeValue_k(value)
    \/ \E value \in Positions(ShiftMin, ShiftMax, ShiftInit, 1) : changeValue_u(value)
    \/ \E value \in Positions(ShiftMin, ShiftMax, ShiftInit, 1) : changeValue_v(value)
    \/ \E value \in Positions(DMin, DMax, DInit, 1) : changeValue_d(value)
    \/ \E value \in Positions(RMin, RMax, RInit, 1) : changeValue_r(value)
    \/ \E value \in Positions(HolesMin, HolesMax, HolesInit, 1) : changeValue_holes(value)
    \/ plotIt
    \/ \E palette \in Palettes : changePalette(palette)
    \/ showDialog

Spec == Init /\ [][Next]_vars

\* ------------------------------------------------- the kernel, called alone
WidgetAbsent ==
    /\ ui = "constructing"
    /\ sk = 0 /\ su = 0 /\ sv = 0 /\ sd = 0 /\ sr = 0 /\ hc = 0
    /\ lut = "none" /\ p100 = NoImage /\ p600 = NoImage
    /\ img100 = [image |-> NoImage, lut |-> "none"]
    /\ img600 = [image |-> NoImage, lut |-> "none"]
    /\ saved = "none"

KernelInit ==
    /\ args \in ArgSpace
    /\ ret = NoCall
    /\ pc = "call"
    /\ WidgetAbsent

\* The fftpack builds that differ on args: they differ only on a transform of
\* zero points, which some versions reject.
FftBuilds(a) == IF a.npx = 0 THEN BOOLEAN ELSE {FALSE}

\* One call of pindr on args.
CallPindr ==
    /\ pc = "call"
    /\ \E emptyFftRaises \in FftBuilds(args) : ret' = pindr(args, emptyFftRaises)
    /\ pc' = "done"
    /\ UNCHANGED <<args, widgetVars>>

KernelNext == CallPindr

KernelSpec == KernelInit /\ [][KernelNext]_vars

\* ===================================================== claims on the kernel
Returned == pc = "done" /\ ret.status = "returned"
Grid(npx) == (1..npx) \X (1..npx)
IsSquare(A, npx) == A.shape = <<npx, npx>> /\ DOMAIN A.at = Grid(npx)

NeverRaises == pc = "done" => ret.status = "returned"

\* C2 amended: a call with k # 0 and npx >= 1 returns, whatever nholes (also
\* <= 0), R and d are; k = 0 raises ZeroDivisionError and, for k # 0, npx < 0
\* raises ValueError.
RaisesOnlyOnZeroKOrBadSize ==
    pc = "done" =>
        /\ (args.k # 0 /\ args.npx >= 1) => ret.status = "returned"
        /\ args.k = 0 => ret = Raised("ZeroDivisionError")
        /\ (args.k # 0 /\ args.npx < 0) => ret = Raised("ValueError")

DegenerateReturnsWitness ==
    /\ Returned /\ args.npx >= 1 /\ args.nholes >= 1 /\ args.R = 0 /\ args.d = 0
    /\ HasNaN(ret.abs_image)

\* A sample that compares >= 0: a magnitude that is not NaN.
NonNeg(e) == e.kind = "abs" /\ ~e.nan

Accepted == Returned /\ args.k > 0 /\ args.npx >= 1 /\ args.nholes >= 1

\* C3 as stated: every element of the returned array is >= 0 on every accepted
\* input, R = 0 with d = 0 included.
AllNonNegative ==
    Accepted => \A p \in DOMAIN ret.abs_image.at : NonNeg(ret.abs_image.at[p])

\* d = 0 and pinhole 0, at (R, 0), on a grid point (every pinhole when R = 0).
PinholeOnGrid ==
    /\ args.d = 0
    /\ \E j \in DOMAIN ret.x : ret.x[j] = args.R
    /\ \E j \in DOMAIN ret.y : ret.y[j] = 0

\* C3 amended: every element is >= 0 unless a radial distance is exactly zero
\* (d = 0 with a pinhole on a grid point); then every element is NaN.
NonNegativeUnlessZeroDistance ==
    Accepted =>
        IF PinholeOnGrid
        THEN \A p \in DOMAIN ret.abs_image.at : ret.abs_image.at[p].nan
        ELSE \A p \in DOMAIN ret.abs_image.at : NonNeg(ret.abs_image.at[p])

NonNegativeWitness ==
    /\ Accepted /\ args.npx >= 2 /\ args.d = 0 /\ ~PinholeOnGrid
    /\ \A p \in DOMAIN ret.abs_image.at : NonNeg(ret.abs_image.at[p])

\* The bin sum B times the twiddles w1^s[1] * w2^s[2]: a factor of modulus 1.
RotateTerm(t, s, shape) == <<t[1], <<(t[2][1] + s[1]) % shape[1], (t[2][2] + s[2]) % shape[2]>>>>
Rotate(B, s, shape) ==
    [t \in {RotateTerm(t0, s, shape) : t0 \in DOMAIN B} |->
        B[RotateTerm(t, <<shape[1] - s[1], shape[2] - s[2]>>, shape)]]

\* Two samples of an image equal as real numbers: neither is NaN, and the
\* sums under them differ by a factor of modulus 1.
MagEq(e, f, shape) ==
    /\ ~e.nan /\ ~f.nan /\ e.kind = f.kind
    /\ \E s \in (0..(shape[1] - 1)) \X (0..(shape[2] - 1)) : Rotate(e.of, s, shape) = f.of

\* The array equals itself rotated by 180 degrees: A[r, c] = A[N+1-r, N+1-c].
Rot180Symmetric(A) ==
    \A p \in DOMAIN A.at :
        MagEq(A.at[p], A.at[<<A.shape[1] + 1 - p[1], A.shape[2] + 1 - p[2]>>], A.shape)

\* (x, y) -> (-x, -y) maps the sampled points, and the pinholes, onto themselves.
Range(f) == {f[j] : j \in DOMAIN f}
CoordsNegationClosed ==
    /\ \A o \in Range(ret.x) : -o \in Range(ret.x)
    /\ \A o \in Range(ret.y) : -o \in Range(ret.y)
HolePositions ==
    {<<HoleX2(i, args.nholes, args.R), HoleY2(i, args.nholes, args.R)>> : i \in PyRange(args.nholes)}
HolesNegationClosed ==
    \A h \in HolePositions : <<Z3Scale(-1, h[1]), Z3Scale(-1, h[2])>> \in HolePositions

ZeroShift == Accepted /\ args.u = 0 /\ args.v = 0 /\ ~HasNaN(ret.abs_image)

\* The array equals itself rotated by 180 degrees about the centre index
\* floor(N/2), where fftshift puts the DC bin: index k against
\* (2*floor(N/2) - k) mod N.  For odd N this is Rot180Symmetric.
Mirror(k, N) == (2 * (N \div 2) - k) % N
CentreSymmetric(A) ==
    \A p \in DOMAIN A.at :
        MagEq(A.at[p],
              A.at[<<Mirror(p[1] - 1, A.shape[1]) + 1, Mirror(p[2] - 1, A.shape[2]) + 1>>],
              A.shape)

OffsetsCentred ==
    (Returned /\ args.npx >= 1) =>
        /\ \A j \in DOMAIN ret.x : 2 * ret.x[j] = 2 * ret.I[j] - (args.npx + 1)
        /\ \A o \in Range(ret.x) : -o \in Range(ret.x)
        /\ \A j \in DOMAIN ret.x : ret.y[j] = -ret.x[j]

\* C8 amended: the offsets are i - floor((npx+1)/2), that is the integers
\* -floor((npx-1)/2) .. floor(npx/2); the y offset is the negated x offset;
\* the set of x offsets is closed under negation, and equal to
\* i - (npx+1)/2, exactly when npx is odd.
OffsetsFloorCentred ==
    (Returned /\ args.npx >= 1) =>
        /\ \A j \in DOMAIN ret.x : ret.x[j] = ret.I[j] - ((args.npx + 1) \div 2)
        /\ Range(ret.x) = (-((args.npx - 1) \div 2))..(args.npx \div 2)
        /\ \A j \in DOMAIN ret.x : ret.y[j] = -ret.x[j]
        /\ (\A o \in Range(ret.x) : -o \in Range(ret.x)) <=> args.npx % 2 = 1
        /\ (\A j \in DOMAIN ret.x : 2 * ret.x[j] = 2 * ret.I[j] - (args.npx + 1))
              <=> args.npx % 2 = 1

OffsetsWitness == Returned /\ args.npx = 2 /\ ret.x = <<0, 1>> /\ ret.y = <<0, -1>>

\* The mask sample of grid point (X, Y): the wavelets of all pinholes.
RECURSIVE WaveletsAt(_, _, _)
WaveletsAt(X, Y, i) ==
    IF i < 0 THEN EmptyBag
    ELSE BagAdd(WaveletsAt(X, Y, i - 1), DistSq4(X, Y, i, args.nholes, args.R, args.d))

\* C9 as stated: element [row, col] of the mask and of the shift phase has
\* x = offset of col and y = -offset of row; u multiplies x and v multiplies y.
RowIsY ==
    Accepted =>
        \A p \in Grid(args.npx) :
            /\ ret.xy.at[p] = args.u * ret.x[p[2]] + args.v * (-ret.x[p[1]])
            /\ ret.M.at[p].terms = WaveletsAt(ret.x[p[2]], -ret.x[p[1]], args.nholes - 1)

\* C9 amended: element [row, col] has x = offset of row (the first index) and
\* y = -offset of col (the second index); u multiplies x and v multiplies y.
RowIsX ==
    Accepted =>
        \A p \in Grid(args.npx) :
            /\ ret.xy.at[p] = args.u * ret.x[p[1]] + args.v * (-ret.x[p[2]])
            /\ ret.M.at[p].terms = WaveletsAt(ret.x[p[1]], -ret.x[p[2]], args.nholes - 1)

RowIsXWitness ==
    /\ Accepted /\ args.npx = 2 /\ args.u = 1 /\ args.v = 0 /\ args.R > 0
    /\ ret.xy.at[<<2, 1>>] = 1 /\ ret.xy.at[<<1, 2>>] = 0

\* C10: fftshift moves bin k to (k + floor(N/2)) mod N along each axis, for
\* even and odd N: the leading ceil(N/2) bins of an axis go behind the trailing
\* floor(N/2) ones (the quadrants are exchanged diagonally), the DC bin lands
\* on index floor(N/2), and the magnitude is taken after the rearrangement.
ShiftedTo(k, N) == (k + N \div 2) % N
ShiftMovesBins ==
    (Returned /\ args.npx >= 1) =>
        LET N == args.npx IN
        /\ \A k \in (0..(N - 1)) \X (0..(N - 1)) :
              /\ ret.D2.at[<<ShiftedTo(k[1], N) + 1, ShiftedTo(k[2], N) + 1>>]
                    = ret.D1.at[<<k[1] + 1, k[2] + 1>>]
              /\ ret.abs_image.at[<<ShiftedTo(k[1], N) + 1, ShiftedTo(k[2], N) + 1>>]
                    = Magnitude(ret.D1.at[<<k[1] + 1, k[2] + 1>>])
        /\ \A k \in 0..(N - 1) :
              /\ k < (N + 1) \div 2 <=> ShiftedTo(k, N) >= N \div 2
              /\ ShiftList(N)[ShiftedTo(k, N) + 1] = k
        /\ {ShiftedTo(k, N) : k \in 0..(N - 1)} = 0..(N - 1)
        /\ ShiftedTo(0, N) = N \div 2

ShiftWitness ==
    /\ Returned /\ args.npx = 3 /\ args.nholes >= 1 /\ ~HasNaN(ret.D1)
    /\ ret.D2.at[<<2, 2>>] = ret.D1.at[<<1, 1>>]
    /\ ret.D1.at[<<1, 1>>] # ret.D1.at[<<2, 2>>]

\* ===================================================== claims on the widget
\* The arguments the controls stand for under the handlers' mappings.
Mapped(npx) ==
    [k |-> sk, u |-> PiOver50(su), v |-> PiOver50(sv), npx |-> npx, nholes |-> hc,
     d |-> Rat(sd, 100), R |-> Rat(sr, 10)]

Constructed == ui = "constructing" /\ ui' = "shown"

ParamEvent ==
    \/ \E value \in Positions(KMin, KMax, KInit, MaxTick) : changeValue_k(value)
    \/ \E value \in Positions(ShiftMin, ShiftMax, ShiftInit, 1) : changeValue_u(value)
    \/ \E value \in Positions(ShiftMin, ShiftMax, ShiftInit, 1) : changeValue_v(value)
    \/ \E value \in Positions(DMin, DMax, DInit, 1) : changeValue_d(value)
    \/ \E value \in Positions(RMin, RMax, RInit, 1) : changeValue_r(value)
    \/ \E value \in Positions(HolesMin, HolesMax, HolesInit, 1) : changeValue_holes(value)

\* C5 as stated: the initial images are computed with k=350, u=0, v=0,
\* nholes=8, R=2.0, d=0.1 (npx 600 and 100), the values the controls start at.
InitialImagesZeroShift ==
    [][Constructed =>
        /\ p600' = Image([k |-> 350, u |-> Lit(0), v |-> Lit(0), npx |-> 600, nholes |-> 8,
                          R |-> Rat(2, 1), d |-> Rat(1, 10)])
        /\ p100' = Image([k |-> 350, u |-> Lit(0), v |-> Lit(0), npx |-> 100, nholes |-> 8,
                          R |-> Rat(2, 1), d |-> Rat(1, 10)])
        /\ p600' = Image(Mapped(600)')]_vars

\* C5 amended: the initial images are computed with k=350, u=1.0, v=1.0,
\* nholes=8, R=2.0, d=0.1 (npx 600 and 100); k, nholes, R and d are the values
\* the controls start at, u and v are not: the shift sliders start at 16,
\* which stands for 16*pi/50.
InitialImagesUnitShift ==
    [][Constructed =>
        /\ p600' = Image([k |-> 350, u |-> Lit(1), v |-> Lit(1), npx |-> 600, nholes |-> 8,
                          R |-> Rat(2, 1), d |-> Rat(1, 10)])
        /\ p100' = Image([k |-> 350, u |-> Lit(1), v |-> Lit(1), npx |-> 100, nholes |-> 8,
                          R |-> Rat(2, 1), d |-> Rat(1, 10)])
        /\ p600' = Image([Mapped(600)' EXCEPT !.u = Lit(1), !.v = Lit(1)])
        /\ Mapped(600)'.u = PiOver50(16) /\ Mapped(600)'.v = PiOver50(16)
        /\ Mapped(600)'.u # p600'.of.u /\ Mapped(600)'.v # p600'.of.v]_vars

InitialImagesWitness ==
    /\ ui = "shown" /\ p600 = Image(PindrDefaults) /\ p100.of.npx = 100 /\ p100.of.u = Lit(1)
    /\ controls = <<350, 16, 16, 10, 20, 8>>

\* C6: a parameter-change event recomputes only the preview, with npx = 100,
\* and leaves p600 alone; p600 changes only in plotIt, which computes it with
\* npx = 600; changePalette and showDialog never change it.
TwoTierRecomputation ==
    [][/\ ParamEvent => (p600' = p600 /\ p100'.of.npx = 100 /\ p100'.shape = <<100, 100>>)
       /\ (ui = "shown" /\ p600' # p600) => (plotIt /\ p600'.of.npx = 600 /\ p100' = p100)
       /\ ((\E palette \in Palettes : changePalette(palette)) \/ showDialog) => p600' = p600]_vars

TwoTierWitness ==
    /\ ui = "shown" /\ sk # KInit /\ p100.of.k = sk /\ p100.of.npx = 100
    /\ p600 = Image(PindrDefaults) /\ saved = "written" /\ lut # "thermal"

\* C7: after a parameter-change event the preview is pindr on the current
\* state of all controls under the mappings, with npx = 100; the image plotIt
\* computes is pindr on them with npx = 600.
PreviewFollowsControls ==
    [][/\ ParamEvent => p100' = Image(Mapped(PreviewSize)')
       /\ plotIt => p600' = Image(Mapped(FullSize)')]_vars

====
